---- MODULE Spec2Model ----
(***************************************************************************)
(* Bogus control flow pass (lib/Transform/boguscf.cpp): a function's IR    *)
(* as blocks of instructions, the pass options, the random engine, and     *)
(* BogusCF::doInitialization / runOnFunction / isEligible as actions.      *)
(* runOnFunction is one action per phase (gates, filter walk, PHI          *)
(* demotion, shuffle, one loop iteration per candidate block, return).     *)
(* DEBUG(...) statements are compiled out or switched off: they only name  *)
(* blocks and print.                                                       *)
(***************************************************************************)
EXTENDS Integers, Sequences, FiniteSets, TLC

VARIABLES
  bcfProbability,   \* cl::opt bcfProbability, in percent (0, 50, 100)
  bcfSeed,          \* cl::opt bcfSeed ("" = seed from the system clock)
  disableBcf,       \* cl::opt disableBcf
  bcfFunc,          \* cl::list bcfFunc
  engine,           \* BogusCF::engine, the state of the random engine
  F,                \* the function the pass manager is at
  F0,               \* F as it was when the current call of runOnFunction began
  pc,               \* position inside the pass
  blocks,           \* runOnFunction's local vector blocks
  phis,             \* runOnFunction's local vector phis
  idx,              \* position of the range-for over blocks
  hasBeenModified,  \* runOnFunction's local hasBeenModified
  mustObfuscate,    \* runOnFunction's local mustObfuscate
  ret,              \* what the last call of runOnFunction returned
  elig,             \* what isEligible returned for F ("none": not asked since F changed)
  trials,           \* the trial(engine) outcomes of the current call, in order
  last,             \* block, successor, originalBlock, copyBlock of the last iteration
                    \* that transformed, and the PHINodes it demoted at line 366
  runs,             \* calls of runOnFunction so far
  forced            \* whether the caller tagged F as "must obfuscate"

vars == <<bcfProbability, bcfSeed, disableBcf, bcfFunc, engine, F, F0, pc, blocks,
          phis, idx, hasBeenModified, mustObfuscate, ret, elig, trials, last, runs, forced>>

---------------------------------------------------------------------------
(* Bounds of the model *)

\* calls of runOnFunction explored in one behaviour
MaxRuns == 2
\* runOnFunction is only entered on functions of at most this many blocks
MaxBlocks == 4
\* block visits the interpreter follows in the function before the pass
Fuel == 6

---------------------------------------------------------------------------
(* Sequences *)

Range(s) == {s[i] : i \in DOMAIN s}

IndexOf(s, x) == CHOOSE i \in DOMAIN s : s[i] = x

\* s with x inserted before position i
InsertAt(s, i, x) == SubSeq(s, 1, i - 1) \o <<x>> \o SubSeq(s, i, Len(s))

RemoveElem(s, x) == SelectSeq(s, LAMBDA y : y # x)

IsPrefix(s, t) == Len(s) <= Len(t) /\ SubSeq(t, 1, Len(s)) = s

Min(S) == CHOOSE x \in S : \A y \in S : x <= y

RECURSIVE SetToSeq(_)
SetToSeq(S) ==
  IF S = {} THEN <<>> ELSE <<Min(S)>> \o SetToSeq(S \ {Min(S)})

\* a shuffle that may repeat one element in place of another
ShufflesWithRepeats(s) == [DOMAIN s -> Range(s)]

\* the orders a sequence of distinct elements can be put in
Shuffles(s) ==
  {p \in [DOMAIN s -> Range(s)] : \A x \in Range(s) : \E i \in DOMAIN s : p[i] = x}

---------------------------------------------------------------------------
(* The IR.  An instruction is a record; its id (its position in Fn.ins) is *)
(* the Value it defines.  Operand 0 is the function's argument.            *)
(*   kind : what the instruction is                                        *)
(*   ops  : operand Values (store: <<value, slot>>; load: <<slot>>)        *)
(*   inc  : a PHINode's incoming blocks, parallel to ops                   *)
(*   succ : a terminator's successors                                      *)
(*   opc  : the operation computed (CloneBasicBlock copies it)             *)
(*   eff  : whether executing it is externally observable                  *)
(* A function: order is its block list (order[1] the entry block),         *)
(* body[b] the instruction ids of block b, ins the instructions.           *)

MkInst(kind, ops, inc, succ, opc, eff) ==
  [kind |-> kind, ops |-> ops, inc |-> inc, succ |-> succ, opc |-> opc, eff |-> eff]

Op(opc, ops) == MkInst("op", ops, <<>>, <<>>, opc, FALSE)
Call(opc, ops) == MkInst("op", ops, <<>>, <<>>, opc, TRUE)
Phi(ops, inc) == MkInst("phi", ops, inc, <<>>, 0, FALSE)
Br(t) == MkInst("br", <<>>, <<>>, <<t>>, 0, FALSE)
CondBr(c, t, f) == MkInst("condbr", <<c>>, <<>>, <<t, f>>, 0, FALSE)
Ret(v) == MkInst("ret", <<v>>, <<>>, <<>>, 0, FALSE)
Invoke(opc, ops, t, u) == MkInst("invoke", ops, <<>>, <<t, u>>, opc, TRUE)
LandingPad == MkInst("landingpad", <<>>, <<>>, <<>>, 0, FALSE)
Unreachable == MkInst("unreachable", <<>>, <<>>, <<>>, 0, FALSE)
Alloca == MkInst("alloca", <<>>, <<>>, <<>>, 0, FALSE)
Load(slot) == MkInst("load", <<slot>>, <<>>, <<>>, 0, FALSE)
Store(v, slot) == MkInst("store", <<v, slot>>, <<>>, <<>>, 0, FALSE)
OpaquePred == MkInst("pred", <<>>, <<>>, <<>>, 0, FALSE)

IsTerminator(i) == i.kind \in {"br", "condbr", "ret", "invoke", "unreachable"}

Blocks(Fn) == DOMAIN Fn.body

Placed(Fn) == UNION {Range(Fn.body[b]) : b \in Blocks(Fn)}

ParentOf(Fn, i) == CHOOSE b \in Blocks(Fn) : i \in Range(Fn.body[b])

getTerminator(Fn, b) == Fn.body[b][Len(Fn.body[b])]

Succs(Fn, b) == Fn.ins[getTerminator(Fn, b)].succ

Preds(Fn, b) == {p \in Blocks(Fn) : b \in Range(Succs(Fn, p))}

\* position in block b of its first instruction that is no PHINode
FirstNonPHIPos(Fn, b) ==
  Min({k \in DOMAIN Fn.body[b] : Fn.ins[Fn.body[b][k]].kind # "phi"})

getFirstNonPHI(Fn, b) == Fn.body[b][FirstNonPHIPos(Fn, b)]

isLandingPad(Fn, b) == Fn.ins[getFirstNonPHI(Fn, b)].kind = "landingpad"

PhisOf(Fn, b) == SelectSeq(Fn.body[b], LAMBDA i : Fn.ins[i].kind = "phi")

AllPhis(Fn) == {i \in Placed(Fn) : Fn.ins[i].kind = "phi"}

\* the instructions that read Value v
Users(Fn, v) == {u \in Placed(Fn) : v \in Range(Fn.ins[u].ops)}

\* Fn with a new instruction (id Len(Fn.ins) + 1) before position pos of block b
AddInst(Fn, b, pos, inst) ==
  [Fn EXCEPT !.ins = Append(@, inst),
             !.body[b] = InsertAt(@, pos, Len(Fn.ins) + 1)]

eraseFromParent(Fn, i) ==
  [Fn EXCEPT !.body[ParentOf(Fn, i)] = RemoveElem(@, i)]

\* User::replaceUsesOfWith on each of users
replaceUsesOfWith(Fn, users, old, new) ==
  [Fn EXCEPT !.ins = [i \in DOMAIN Fn.ins |->
     IF i \in users
       THEN [Fn.ins[i] EXCEPT !.ops = [k \in DOMAIN Fn.ins[i].ops |->
               IF Fn.ins[i].ops[k] = old THEN new ELSE Fn.ins[i].ops[k]]]
       ELSE Fn.ins[i]]]

---------------------------------------------------------------------------
(* LLVM utilities the pass calls *)

\* the stores DemotePHIToStack puts before the terminator of each incoming block
RECURSIVE StoreIncoming(_, _, _, _)
StoreIncoming(Fn, P, slot, k) ==
  IF k > Len(Fn.ins[P].ops) THEN Fn
  ELSE LET pb == Fn.ins[P].inc[k]
       IN StoreIncoming(AddInst(Fn, pb, Len(Fn.body[pb]), Store(Fn.ins[P].ops[k], slot)),
                        P, slot, k + 1)

\* position in block b, at or after position k, of the first instruction that is
\* neither a PHINode nor a landingpad
LoadInsertPos(Fn, b, k) ==
  Min({j \in k..Len(Fn.body[b]) : Fn.ins[Fn.body[b][j]].kind \notin {"phi", "landingpad"}})

\* llvm::DemotePHIToStack(P): a stack slot at the top of the entry block, a store
\* of each incoming value at the end of its incoming block, a load in place of
\* P, every use of P redirected to the load, P erased
DemotePHIToStack(Fn, P) ==
  IF Users(Fn, P) = {} THEN eraseFromParent(Fn, P)
  ELSE LET b == ParentOf(Fn, P)
           slot == Len(Fn.ins) + 1
           F1 == AddInst(Fn, Fn.order[1], 1, Alloca)
           F2 == StoreIncoming(F1, P, slot, 1)
           ld == Len(F2.ins) + 1
           F3 == AddInst(F2, b, LoadInsertPos(F2, b, IndexOf(F2.body[b], P)), Load(slot))
           F4 == replaceUsesOfWith(F3, Users(F3, P), P, ld)
       IN eraseFromParent(F4, P)

\* DemotePHIToStack's assert: an incoming value that is the InvokeInst ending
\* its own incoming block ("Invoke edge not supported yet")
InvokeEdge(Fn, P) ==
  \E k \in DOMAIN Fn.ins[P].ops :
    /\ Fn.ins[P].ops[k] # 0
    /\ Fn.ins[Fn.ins[P].ops[k]].kind = "invoke"
    /\ Fn.ins[P].ops[k] \in Range(Fn.body[Fn.ins[P].inc[k]])

\* BasicBlock::splitBasicBlock(I) on block b: the instructions from I on move to
\* a new block placed after b, b ends in a branch to it, and the PHINodes of the
\* new block's successors name it in place of b
splitBasicBlock(Fn, b, I) ==
  LET k == IndexOf(Fn.body[b], I)
      nb == Len(Fn.body) + 1
      tail == SubSeq(Fn.body[b], k, Len(Fn.body[b]))
      head == Append(SubSeq(Fn.body[b], 1, k - 1), Len(Fn.ins) + 1)
      succs == Range(Fn.ins[tail[Len(tail)]].succ)
      fix(i) == IF Fn.ins[i].kind = "phi" /\ i \in Placed(Fn) /\ ParentOf(Fn, i) \in succs
                  THEN [Fn.ins[i] EXCEPT !.inc = [j \in DOMAIN Fn.ins[i].inc |->
                          IF Fn.ins[i].inc[j] = b THEN nb ELSE Fn.ins[i].inc[j]]]
                  ELSE Fn.ins[i]
  IN [Fn EXCEPT !.ins = Append([i \in DOMAIN Fn.ins |-> fix(i)], Br(nb)),
                !.body = Append([Fn.body EXCEPT ![b] = head], tail),
                !.order = InsertAt(Fn.order, IndexOf(Fn.order, b) + 1, nb)]

\* the ValueToValueMapTy CloneBasicBlock fills: each instruction of block ob to
\* its copy
VMapOf(Fn, ob) ==
  [i \in Range(Fn.body[ob]) |-> Len(Fn.ins) + IndexOf(Fn.body[ob], i)]

\* llvm::CloneBasicBlock(ob, VMap, prefix, &F): a copy of every instruction, with
\* the operands of the original, in a new block at the end of the function
CloneBasicBlock(Fn, ob) ==
  LET n == Len(Fn.body[ob])
  IN [Fn EXCEPT !.ins = Fn.ins \o [k \in 1..n |-> Fn.ins[Fn.body[ob][k]]],
                !.body = Append(Fn.body, [k \in 1..n |-> Len(Fn.ins) + k]),
                !.order = Append(Fn.order, Len(Fn.body) + 1)]

\* llvm::RemapInstruction(&inst, VMap, RF_IgnoreMissingEntries)
RemapInstruction(Fn, i, VMap) ==
  [Fn EXCEPT !.ins[i].ops = [k \in DOMAIN Fn.ins[i].ops |->
     IF Fn.ins[i].ops[k] \in DOMAIN VMap THEN VMap[Fn.ins[i].ops[k]] ELSE Fn.ins[i].ops[k]]]

---------------------------------------------------------------------------
(* The random engine and the Bernoulli trial *)

\* the engine's states are 0 .. EngineMod - 1
EngineMod == 8

\* engine.seed(seed_seq over the characters of bcfSeed)
SeedOf(str) == IF str = "a" THEN 1 ELSE 6

\* one step of the engine
EngineNext(e) == (5 * e + 3) % EngineMod

\* std::bernoulli_distribution::operator(): a draw u in [0, 1) from the engine
\* (its new state over EngineMod), true when u < p
Trial(e, p) == EngineNext(e) * 100 < p * EngineMod

---------------------------------------------------------------------------
(* Collaborators of the pass declared outside this file *)

\* Copy::isFunctionTagged(F, ObfUtils::BogusCFObf)
isFunctionTagged(Fn) == Fn.tagged

\* ObfUtils::tagFunction(F, ObfUtils::BogusCFObf)
tagFunction(Fn) == [Fn EXCEPT !.tagged = TRUE]

\* OpaquePredicate::createStub(block, originalBlock, copyBlock): the predicate,
\* then a conditional branch on it, to originalBlock when it holds and to
\* copyBlock otherwise, at the end of block
createStub(Fn, b, ob, cb) ==
  LET p == Len(Fn.ins) + 1
  IN [Fn EXCEPT !.ins = Fn.ins \o <<OpaquePred, CondBr(p, ob, cb)>>,
                !.body[b] = Fn.body[b] \o <<p, p + 1>>]

---------------------------------------------------------------------------
(* runOnFunction, lines 124-186: the walk that lists the candidate blocks   *)
(* and the PHINodes                                                         *)

\* lines 146-179 without the test of lines 153-157
ClassifyNoTerminatorSkip(Fn, b) ==
  IF isLandingPad(Fn, b) THEN "skip"
  ELSE IF b = Fn.order[1] THEN "skip"
  ELSE IF Fn.ins[getTerminator(Fn, b)].kind = "invoke" THEN "veto"
  ELSE "add"

\* lines 146-179: what the walk does with block b
Classify(Fn, b) ==
  IF IsTerminator(Fn.ins[getFirstNonPHI(Fn, b)]) THEN "skip"
  ELSE IF isLandingPad(Fn, b) THEN "skip"
  ELSE IF b = Fn.order[1] THEN "skip"
  ELSE IF Fn.ins[getTerminator(Fn, b)].kind = "invoke" THEN "veto"
  ELSE "add"

\* the outcome of the walk from position k of the block list on: the blocks and
\* phis vectors, and whether the walk returned at an InvokeInst
RECURSIVE FilterWalk(_, _, _)
FilterWalk(Fn, k, acc) ==
  IF k > Len(Fn.order) THEN acc
  ELSE LET b == Fn.order[k]
           seen == [acc EXCEPT !.phis = acc.phis \o PhisOf(Fn, b)]
       IN CASE Classify(Fn, b) = "skip" -> FilterWalk(Fn, k + 1, seen)
            [] Classify(Fn, b) = "veto" -> [seen EXCEPT !.veto = TRUE]
            [] OTHER ->
                 FilterWalk(Fn, k + 1, [seen EXCEPT !.blocks = Append(seen.blocks, b)])

Filter(Fn) == FilterWalk(Fn, 1, [blocks |-> <<>>, phis |-> <<>>, veto |-> FALSE])

---------------------------------------------------------------------------
(* isEligible, lines 408-449 *)

\* eligibleBB after the loop from position k of the block list on, or -1 when
\* the loop returned false at an InvokeInst
RECURSIVE EligibleWalk(_, _, _)
EligibleWalk(Fn, k, eligibleBB) ==
  IF k > Len(Fn.order) THEN eligibleBB
  ELSE LET b == Fn.order[k]
           inst1 == getFirstNonPHI(Fn, b)
       IN IF IsTerminator(Fn.ins[inst1]) THEN EligibleWalk(Fn, k + 1, eligibleBB)
          ELSE IF isLandingPad(Fn, b) THEN EligibleWalk(Fn, k + 1, eligibleBB)
          ELSE IF b = Fn.order[1] THEN EligibleWalk(Fn, k + 1, eligibleBB)
          ELSE IF Fn.ins[getTerminator(Fn, b)].kind = "invoke" THEN -1
          ELSE EligibleWalk(Fn, k + 1, eligibleBB + 1)

\* isEligible without its test of eligibleBB, lines 443-446
isEligibleNoCount(Fn) ==
  IF Fn.isDecl THEN FALSE
  ELSE EligibleWalk(Fn, 1, 0) >= 0

isEligible(Fn) ==
  IF Fn.isDecl THEN FALSE
  ELSE EligibleWalk(Fn, 1, 0) > 0

---------------------------------------------------------------------------
(* runOnFunction, lines 188-191: every listed PHINode demoted *)

\* the loop stopping one PHINode short
RECURSIVE DemoteAllButLast(_, _, _)
DemoteAllButLast(Fn, ps, k) ==
  IF k >= Len(ps) THEN Fn ELSE DemoteAllButLast(DemotePHIToStack(Fn, ps[k]), ps, k + 1)

RECURSIVE DemoteAll(_, _, _)
DemoteAll(Fn, ps, k) ==
  IF k > Len(ps) THEN Fn ELSE DemoteAll(DemotePHIToStack(Fn, ps[k]), ps, k + 1)

---------------------------------------------------------------------------
(* runOnFunction, lines 213-400: the transformation of one selected block *)

\* lines 333-336 with the two incoming Values exchanged
UpdatePhiSwapped(Fn, phi, inst, cinst, ob, cb, users) ==
  LET addO == IF ob \in Range(Fn.ins[phi].inc) THEN Fn
              ELSE [Fn EXCEPT !.ins[phi].ops = Append(@, cinst),
                              !.ins[phi].inc = Append(@, ob)]
      addC == IF cb \in Range(addO.ins[phi].inc) THEN addO
              ELSE [addO EXCEPT !.ins[phi].ops = Append(@, inst),
                                !.ins[phi].inc = Append(@, cb)]
  IN DemotePHIToStack(replaceUsesOfWith(addC, users, inst, phi), phi)

\* lines 333-336: the PHINode gets the Value of originalBlock and its copy in
\* copyBlock as incoming values where it has none for the block
AddIncomings(Fn, phi, inst, cinst, ob, cb) ==
  LET addO == IF ob \in Range(Fn.ins[phi].inc) THEN Fn
              ELSE [Fn EXCEPT !.ins[phi].ops = Append(@, inst),
                              !.ins[phi].inc = Append(@, ob)]
  IN IF cb \in Range(addO.ins[phi].inc) THEN addO
     ELSE [addO EXCEPT !.ins[phi].ops = Append(@, cinst),
                       !.ins[phi].inc = Append(@, cb)]

\* lines 332-366: the PHINode gets its incoming values, the users read the
\* PHINode, and it is demoted
UpdatePhi(Fn, phi, inst, cinst, ob, cb, users) ==
  DemotePHIToStack(
    replaceUsesOfWith(AddIncomings(Fn, phi, inst, cinst, ob, cb), users, inst, phi), phi)

\* lines 331-367: the loop over phiUsers
RECURSIVE UpdatePhis(_, _, _, _, _, _, _, _)
UpdatePhis(Fn, phiUsers, k, inst, cinst, ob, cb, users) ==
  IF k > Len(phiUsers) THEN Fn
  ELSE UpdatePhis(UpdatePhi(Fn, phiUsers[k], inst, cinst, ob, cb, users),
                  phiUsers, k + 1, inst, cinst, ob, cb, users)

\* lines 255-329 for one instruction of originalBlock: used, users, phiUsers,
\* and the function with the PHINode of lines 325-328 created
CollectUsers(Fn, inst, ob, cb, successor) ==
  LET outside == {u \in Users(Fn, inst) : ParentOf(Fn, u) \notin {ob, cb}}
      succPhis == {u \in outside : Fn.ins[u].kind = "phi" /\ ParentOf(Fn, u) = successor}
      users == outside \ succPhis
      usedNonPhi == users # {}
      created == AddInst(Fn, successor, FirstNonPHIPos(Fn, successor), Phi(<<>>, <<>>))
  IN [used |-> outside # {},
      users |-> users,
      phiUsers |-> SetToSeq(succPhis) \o (IF usedNonPhi THEN <<Len(Fn.ins) + 1>> ELSE <<>>),
      fn |-> IF usedNonPhi THEN created ELSE Fn]

\* lines 253-367 for one instruction of originalBlock
HandleInst(Fn, inst, cinst, ob, cb, successor) ==
  LET c == CollectUsers(Fn, inst, ob, cb, successor)
  IN IF ~c.used THEN Fn
     ELSE UpdatePhis(c.fn, c.phiUsers, 1, inst, cinst, ob, cb, c.users)

\* lines 250-368: the loop over the instructions of originalBlock (insts: the
\* instructions it had when the loop began; the stores the loop adds have no users)
RECURSIVE HandleSuccessorUse(_, _, _, _, _, _, _)
HandleSuccessorUse(Fn, insts, k, VMap, ob, cb, successor) ==
  IF k > Len(insts) THEN Fn
  ELSE HandleSuccessorUse(HandleInst(Fn, insts[k], VMap[insts[k]], ob, cb, successor),
                          insts, k + 1, VMap, ob, cb, successor)

\* lines 331-366: each PHINode of phiUsers as line 366 finds it: its incoming
\* blocks, and the predecessors the join block has then
RECURSIVE LoweredPhis(_, _, _, _, _, _, _, _, _)
LoweredPhis(Fn, phiUsers, k, inst, cinst, ob, cb, users, successor) ==
  IF k > Len(phiUsers) THEN <<>>
  ELSE LET G == AddIncomings(Fn, phiUsers[k], inst, cinst, ob, cb)
       IN <<[phi |-> phiUsers[k], inc |-> G.ins[phiUsers[k]].inc,
             preds |-> Preds(G, successor)]>>
          \o LoweredPhis(UpdatePhi(Fn, phiUsers[k], inst, cinst, ob, cb, users),
                         phiUsers, k + 1, inst, cinst, ob, cb, users, successor)

\* lines 250-368: the PHINodes the loop over originalBlock hands to line 366
RECURSIVE LoweredInBlock(_, _, _, _, _, _, _)
LoweredInBlock(Fn, insts, k, VMap, ob, cb, successor) ==
  IF k > Len(insts) THEN <<>>
  ELSE LET c == CollectUsers(Fn, insts[k], ob, cb, successor)
       IN (IF c.used
             THEN LoweredPhis(c.fn, c.phiUsers, 1, insts[k], VMap[insts[k]], ob, cb,
                              c.users, successor)
             ELSE <<>>)
          \o LoweredInBlock(HandleInst(Fn, insts[k], VMap[insts[k]], ob, cb, successor),
                            insts, k + 1, VMap, ob, cb, successor)

\* lines 242-244
RECURSIVE RemapBlock(_, _, _, _)
RemapBlock(Fn, cb, k, VMap) ==
  IF k > Len(Fn.body[cb]) THEN Fn
  ELSE RemapBlock(RemapInstruction(Fn, Fn.body[cb][k], VMap), cb, k + 1, VMap)

\* lines 214-228 without the split: the first successor taken as the join block
SplitSuccessorFirst(Fn, b) ==
  [fn |-> Fn, successor |-> IF Len(Succs(Fn, b)) > 0 THEN Succs(Fn, b)[1] ELSE 0]

\* lines 214-228: the join block (0: the block has no successor), and the
\* function after the split that makes one for a block of several successors
SplitSuccessor(Fn, b) ==
  IF Len(Succs(Fn, b)) > 1
    THEN [fn |-> splitBasicBlock(Fn, b, getTerminator(Fn, b)),
          successor |-> Len(Fn.body) + 1]
    ELSE IF Len(Succs(Fn, b)) > 0
      THEN [fn |-> Fn, successor |-> Succs(Fn, b)[1]]
      ELSE [fn |-> Fn, successor |-> 0]

\* lines 213-400 on block b: the function afterwards, and the locals
TransformBlock(Fn, b) ==
  LET inst1 == getFirstNonPHI(Fn, b)
      successor == SplitSuccessor(Fn, b).successor
      F1 == SplitSuccessor(Fn, b).fn
      ob == Len(F1.body) + 1
      F2 == splitBasicBlock(F1, b, inst1)
      cb == Len(F2.body) + 1
      VMap == VMapOf(F2, ob)
      F3 == RemapBlock(CloneBasicBlock(F2, ob), cb, 1, VMap)
      F4 == IF successor # 0
              THEN HandleSuccessorUse(F3, F3.body[ob], 1, VMap, ob, cb, successor)
              ELSE F3
      F5 == eraseFromParent(F4, getTerminator(F4, b))
  IN [fn |-> createStub(F5, b, ob, cb),
      loc |-> [block |-> b, successor |-> successor, originalBlock |-> ob, copyBlock |-> cb,
               lowered |-> IF successor # 0
                             THEN LoweredInBlock(F3, F3.body[ob], 1, VMap, ob, cb, successor)
                             ELSE <<>>]]

---------------------------------------------------------------------------
(* The functions the pass is run on *)

Fun(name, body, ins) ==
  [name |-> name, isDecl |-> FALSE, tagged |-> FALSE,
   order |-> [k \in DOMAIN body |-> k], body |-> body, ins |-> ins]

\* entry -> B -> exit, exit only a return
Linear ==
  Fun("linear", << <<1, 2>>, <<3, 4>>, <<5>> >>,
      <<Op(1, <<0>>), Br(2), Call(2, <<1>>), Br(3), Ret(3)>>)

\* entry -> B -> exit, exit with an instruction before its return
LinearExit ==
  Fun("linearExit", << <<1, 2>>, <<3, 4>>, <<5, 6>> >>,
      <<Op(1, <<0>>), Br(2), Op(2, <<1>>), Br(3), Call(3, <<3>>), Ret(5)>>)

\* the entry block alone
Single ==
  Fun("single", << <<1, 2>> >>, <<Call(1, <<0>>), Ret(1)>>)

\* entry -> {A, B} -> M, a PHINode in M
Diamond ==
  Fun("diamond", << <<1, 2>>, <<3, 4>>, <<5, 6>>, <<7, 8, 9>> >>,
      <<Op(1, <<0>>), CondBr(1, 2, 3), Op(2, <<1>>), Br(4), Op(3, <<1>>), Br(4),
        Phi(<<3, 5>>, <<2, 3>>), Call(4, <<7>>), Ret(7)>>)

\* entry -> H <-> L, H -> X, a loop-carried PHINode in H
Loop ==
  Fun("loop", << <<1, 2>>, <<3, 4, 5>>, <<6, 7>>, <<8>> >>,
      <<Op(1, <<0>>), Br(2), Phi(<<1, 6>>, <<1, 3>>), Op(2, <<3>>), CondBr(4, 3, 4),
        Call(3, <<3>>), Br(2), Ret(3)>>)

\* B -> B or X, a loop-carried PHINode in B
SelfLoop ==
  Fun("selfLoop", << <<1, 2>>, <<3, 4, 5, 6>>, <<7>> >>,
      <<Op(1, <<0>>), Br(2), Phi(<<1, 4>>, <<1, 2>>), Call(2, <<3>>), Op(3, <<4>>),
        CondBr(5, 2, 3), Ret(4)>>)

\* B branches to itself and nowhere else
BrSelf ==
  Fun("brSelf", << <<1>>, <<2, 3>> >>, <<Br(2), Call(1, <<0>>), Br(2)>>)

\* B -> S, S -> S or X: the join S of B has a second predecessor (itself), and
\* the Value of B is read by a PHINode of S and in X
Join ==
  Fun("join", << <<1>>, <<2, 3>>, <<4, 5, 6, 7>>, <<8>> >>,
      <<Br(2), Op(1, <<0>>), Br(3), Phi(<<2, 6>>, <<2, 3>>), Call(2, <<4>>),
        Op(3, <<5>>), CondBr(6, 3, 4), Ret(2)>>)

\* entry -> B -> exit, exit a PHINode and a return
LinearPhi ==
  Fun("linearPhi", << <<1, 2>>, <<3, 4>>, <<5, 6>> >>,
      <<Op(1, <<0>>), Br(2), Call(2, <<1>>), Br(3), Phi(<<3>>, <<2>>), Ret(5)>>)

\* only PHINodes and terminators outside the entry block
PhiOnly ==
  Fun("phiOnly", << <<1, 2>>, <<3>>, <<4>>, <<5, 6>> >>,
      <<Op(1, <<0>>), CondBr(1, 2, 3), Br(4), Br(4), Phi(<<1, 0>>, <<2, 3>>), Ret(5)>>)

\* the entry block ends in an InvokeInst
InvokeEntry ==
  Fun("invokeEntry", << <<1>>, <<2, 3>>, <<4, 5>> >>,
      <<Invoke(1, <<0>>, 2, 3), Call(2, <<1>>), Ret(2), LandingPad, Unreachable>>)

\* the entry block ends in an InvokeInst whose Value a PHINode of the normal
\* destination reads
InvokeEntryPhi ==
  Fun("invokeEntryPhi", << <<1>>, <<2, 3, 4>>, <<5, 6>> >>,
      <<Invoke(1, <<0>>, 2, 3), Phi(<<1>>, <<1>>), Call(2, <<2>>), Ret(3),
        LandingPad, Unreachable>>)

\* a block after the entry block ends in an InvokeInst
InvokeMid ==
  Fun("invokeMid", << <<1, 2>>, <<3, 4>>, <<5, 6>>, <<7, 8>> >>,
      <<Op(1, <<0>>), Br(2), Op(2, <<1>>), Invoke(3, <<3>>, 3, 4),
        Phi(<<3>>, <<2>>), Ret(5), LandingPad, Unreachable>>)

\* a declaration: no body
Declaration ==
  [name |-> "decl", isDecl |-> TRUE, tagged |-> FALSE,
   order |-> <<>>, body |-> <<>>, ins |-> <<>>]

Functions ==
  {Linear, LinearExit, LinearPhi, Single, Diamond, Loop, SelfLoop, BrSelf, Join, PhiOnly,
   InvokeEntry, InvokeEntryPhi, InvokeMid, Declaration}

\* a function of the module, tagged or not by the caller
ModuleFunctions == {[f EXCEPT !.tagged = t] : f \in Functions, t \in BOOLEAN}

---------------------------------------------------------------------------
(* The pass *)

\* ret before runOnFunction has returned
NoRet == [val |-> FALSE, at |-> "none"]

NoLast ==
  [block |-> 0, successor |-> 0, originalBlock |-> 0, copyBlock |-> 0, lowered |-> <<>>]

Init ==
  /\ bcfProbability \in {0, 50, 100}
  /\ bcfSeed \in {"", "a"}
  /\ disableBcf \in BOOLEAN
  /\ bcfFunc \in {<<>>, <<"linear", "loop">>}
  /\ engine = 0
  /\ F \in ModuleFunctions
  /\ F0 = F
  /\ pc = "init"
  /\ blocks = <<>>
  /\ phis = <<>>
  /\ idx = 0
  /\ hasBeenModified = FALSE
  /\ mustObfuscate = FALSE
  /\ ret = NoRet
  /\ elig = "none"
  /\ trials = <<>>
  /\ last = NoLast
  /\ runs = 0
  /\ forced = F.tagged

\* lines 74-91
doInitialization ==
  /\ pc = "init"
  /\ IF bcfSeed # ""
       THEN engine' = SeedOf(bcfSeed)
       ELSE engine' \in 0..(EngineMod - 1)
  /\ pc' = "idle"
  /\ UNCHANGED <<bcfProbability, bcfSeed, disableBcf, bcfFunc, F, F0, blocks, phis, idx,
                 hasBeenModified, mustObfuscate, ret, elig, trials, last, runs, forced>>

\* the pass manager moves on to another function of the module
NextFunction ==
  /\ pc = "idle"
  /\ ret # NoRet
  /\ runs < MaxRuns
  /\ F' \in ModuleFunctions
  /\ F0' = F'
  /\ blocks' = <<>>
  /\ phis' = <<>>
  /\ idx' = 0
  /\ hasBeenModified' = FALSE
  /\ mustObfuscate' = FALSE
  /\ ret' = NoRet
  /\ elig' = "none"
  /\ trials' = <<>>
  /\ last' = NoLast
  /\ forced' = F'.tagged
  /\ UNCHANGED <<bcfProbability, bcfSeed, disableBcf, bcfFunc, engine, pc, runs>>

\* a caller asks isEligible(F), lines 408-449
IsEligibleCall ==
  /\ pc = "idle"
  /\ elig = "none"
  /\ elig' = IF isEligible(F) THEN "true" ELSE "false"
  /\ UNCHANGED <<bcfProbability, bcfSeed, disableBcf, bcfFunc, engine, F, F0, pc, blocks,
                 phis, idx, hasBeenModified, mustObfuscate, ret, trials, last, runs, forced>>

\* lines 93-120 with the tag stopping the call at line 105
GateReturnTagStops(Fn) ==
  IF disableBcf THEN "disabled"
  ELSE IF Fn.isDecl THEN "declaration"
  ELSE IF isFunctionTagged(Fn) \/ bcfProbability = 0 THEN "probability"
  ELSE IF ~isFunctionTagged(Fn) /\ Len(bcfFunc) # 0 /\ Fn.name \notin Range(bcfFunc)
    THEN "notRequested"
  ELSE ""

\* lines 93-120 without lines 105-107
GateReturnNoProbabilityGate(Fn) ==
  IF disableBcf THEN "disabled"
  ELSE IF Fn.isDecl THEN "declaration"
  ELSE IF ~isFunctionTagged(Fn) /\ Len(bcfFunc) # 0 /\ Fn.name \notin Range(bcfFunc)
    THEN "notRequested"
  ELSE ""

\* the return statement lines 93-120 leave runOnFunction at, "" when they fall
\* through to the walk
GateReturn(Fn) ==
  IF disableBcf THEN "disabled"
  ELSE IF Fn.isDecl THEN "declaration"
  ELSE IF ~isFunctionTagged(Fn) /\ bcfProbability = 0 THEN "probability"
  ELSE IF ~isFunctionTagged(Fn) /\ Len(bcfFunc) # 0 /\ Fn.name \notin Range(bcfFunc)
    THEN "notRequested"
  ELSE ""

\* runOnFunction, lines 93-120
RunGates ==
  /\ pc = "idle"
  /\ runs < MaxRuns
  /\ Len(F.body) <= MaxBlocks
  /\ runs' = runs + 1
  /\ F0' = F
  /\ blocks' = <<>>
  /\ phis' = <<>>
  /\ idx' = 0
  /\ trials' = <<>>
  /\ last' = NoLast
  /\ hasBeenModified' = FALSE
  /\ mustObfuscate' = (GateReturn(F) \notin {"disabled", "declaration"} /\ isFunctionTagged(F))
  /\ IF GateReturn(F) # ""
       THEN pc' = "idle" /\ ret' = [val |-> FALSE, at |-> GateReturn(F)]
       ELSE pc' = "filter" /\ ret' = NoRet
  /\ UNCHANGED <<bcfProbability, bcfSeed, disableBcf, bcfFunc, engine, F, elig, forced>>

\* runOnFunction, lines 124-186
RunFilter ==
  /\ pc = "filter"
  /\ blocks' = Filter(F).blocks
  /\ phis' = Filter(F).phis
  /\ IF Filter(F).veto
       THEN pc' = "idle" /\ ret' = [val |-> hasBeenModified, at |-> "invoke"]
       ELSE IF Filter(F).blocks = <<>>
         THEN pc' = "idle" /\ ret' = [val |-> hasBeenModified, at |-> "empty"]
         ELSE pc' = "demote" /\ ret' = ret
  /\ UNCHANGED <<bcfProbability, bcfSeed, disableBcf, bcfFunc, engine, F, F0, idx,
                 hasBeenModified, mustObfuscate, elig, trials, last, runs, forced>>

\* runOnFunction, lines 188-191
RunDemote ==
  /\ pc = "demote"
  /\ F' = DemoteAll(F, phis, 1)
  /\ pc' = "shuffle"
  /\ elig' = "none"
  /\ UNCHANGED <<bcfProbability, bcfSeed, disableBcf, bcfFunc, engine, F0, blocks, phis, idx,
                 hasBeenModified, mustObfuscate, ret, trials, last, runs, forced>>

\* runOnFunction, line 190, in a build with assertions: DemotePHIToStack's
\* assert fails and the process aborts
RunDemoteAbort ==
  /\ pc = "demote"
  /\ \E k \in DOMAIN phis : InvokeEdge(F, phis[k])
  /\ pc' = "aborted"
  /\ UNCHANGED <<bcfProbability, bcfSeed, disableBcf, bcfFunc, engine, F, F0, blocks, phis,
                 idx, hasBeenModified, mustObfuscate, ret, elig, trials, last, runs, forced>>

\* runOnFunction, lines 195-197
RunShuffle ==
  /\ pc = "shuffle"
  /\ blocks' \in Shuffles(blocks)
  /\ idx' = 1
  /\ pc' = "loop"
  /\ UNCHANGED <<bcfProbability, bcfSeed, disableBcf, bcfFunc, engine, F, F0, phis,
                 hasBeenModified, mustObfuscate, ret, elig, trials, last, runs, forced>>

\* lines 199-211 without the continue of line 210: the block whose trial fails
\* is transformed all the same
LoopSkipNoContinue ==
  /\ pc = "loop"
  /\ idx <= Len(blocks)
  /\ ~Trial(engine, bcfProbability)
  /\ engine' = EngineNext(engine)
  /\ trials' = Append(trials, [block |-> blocks[idx], selected |-> FALSE])
  /\ F' = TransformBlock(F, blocks[idx]).fn
  /\ idx' = idx + 1
  /\ UNCHANGED <<bcfProbability, bcfSeed, disableBcf, bcfFunc, F0, pc, blocks, phis,
                 hasBeenModified, mustObfuscate, ret, elig, last, runs, forced>>

\* runOnFunction, lines 199-211: an iteration whose trial fails
LoopSkip ==
  /\ pc = "loop"
  /\ idx <= Len(blocks)
  /\ ~Trial(engine, bcfProbability)
  /\ engine' = EngineNext(engine)
  /\ trials' = Append(trials, [block |-> blocks[idx], selected |-> FALSE])
  /\ idx' = idx + 1
  /\ UNCHANGED <<bcfProbability, bcfSeed, disableBcf, bcfFunc, F, F0, pc, blocks, phis,
                 hasBeenModified, mustObfuscate, ret, elig, last, runs, forced>>

\* runOnFunction, lines 199-401: an iteration whose trial succeeds
LoopTransform ==
  /\ pc = "loop"
  /\ idx <= Len(blocks)
  /\ Trial(engine, bcfProbability)
  /\ engine' = EngineNext(engine)
  /\ trials' = Append(trials, [block |-> blocks[idx], selected |-> TRUE])
  /\ F' = TransformBlock(F, blocks[idx]).fn
  /\ last' = TransformBlock(F, blocks[idx]).loc
  /\ hasBeenModified' = TRUE
  /\ idx' = idx + 1
  /\ UNCHANGED <<bcfProbability, bcfSeed, disableBcf, bcfFunc, F0, pc, blocks, phis,
                 mustObfuscate, ret, elig, runs, forced>>

\* runOnFunction, lines 403-405
RunReturn ==
  /\ pc = "loop"
  /\ idx > Len(blocks)
  /\ F' = IF hasBeenModified THEN tagFunction(F) ELSE F
  /\ ret' = [val |-> hasBeenModified, at |-> "end"]
  /\ pc' = "idle"
  /\ UNCHANGED <<bcfProbability, bcfSeed, disableBcf, bcfFunc, engine, F0, blocks, phis, idx,
                 hasBeenModified, mustObfuscate, elig, trials, last, runs, forced>>

Next ==
  \/ doInitialization
  \/ NextFunction
  \/ IsEligibleCall
  \/ RunGates
  \/ RunFilter
  \/ RunDemote
  \/ RunDemoteAbort
  \/ RunShuffle
  \/ LoopSkip
  \/ LoopTransform
  \/ RunReturn

Spec == Init /\ [][Next]_vars

---------------------------------------------------------------------------
(* Executing a function: what a run of it returns and the calls it makes *)

\* the Values are 0 .. ValMod - 1
ValMod == 31
\* the arguments a function is run on are 0 .. MaxArg
MaxArg == 1
\* a block of the function before the pass is at most this many blocks after
\* it: the head, the body, the join block
StepsPerBlock == 3

\* the Value of an uninitialized stack slot, of a Value not computed yet
Undef == 0 - 1

RECURSIVE WeightedSum(_, _)
WeightedSum(vals, k) ==
  IF k > Len(vals) THEN 0 ELSE (k + 2) * (vals[k] + 1) + WeightedSum(vals, k + 1)

\* what operation opc computes from its operands
Compute(opc, vals) == (7 * opc + WeightedSum(vals, 1) + 1) % ValMod

ValueOf(env, x, v) == IF v = 0 THEN x ELSE env[v]

\* the machine after instruction i of block b, entered from block prev with
\* the Values env0
ExecInst(Fn, x, i, prev, env0, m) ==
  LET I == Fn.ins[i]
      vals == [k \in DOMAIN I.ops |-> ValueOf(m.env, x, I.ops[k])]
  IN CASE I.kind = "op" ->
            [m EXCEPT !.env[i] = Compute(I.opc, vals),
                      !.tr = IF I.eff THEN Append(@, <<I.opc, vals>>) ELSE @]
       [] I.kind = "phi" ->
            [m EXCEPT !.env[i] =
               IF prev \in Range(I.inc)
                 THEN ValueOf(env0, x, I.ops[IndexOf(I.inc, prev)])
                 ELSE Undef]
       [] I.kind = "alloca" -> [m EXCEPT !.mem[i] = Undef]
       [] I.kind = "load" -> [m EXCEPT !.env[i] = m.mem[I.ops[1]]]
       [] I.kind = "store" -> [m EXCEPT !.mem[I.ops[2]] = vals[1]]
       [] I.kind = "pred" -> [m EXCEPT !.env[i] = m.pred]
       [] OTHER -> m

RECURSIVE ExecInsts(_, _, _, _, _, _, _)
ExecInsts(Fn, x, b, k, prev, env0, m) ==
  IF k >= Len(Fn.body[b]) THEN m
  ELSE ExecInsts(Fn, x, b, k + 1, prev, env0, ExecInst(Fn, x, Fn.body[b][k], prev, env0, m))

\* the run from the start of block b on, at most fuel blocks long
RECURSIVE ExecFrom(_, _, _, _, _, _)
ExecFrom(Fn, x, b, prev, m0, fuel) ==
  IF fuel = 0 THEN [st |-> "running", val |-> 0, tr |-> m0.tr]
  ELSE LET m == ExecInsts(Fn, x, b, 1, prev, m0.env, m0)
           t == getTerminator(Fn, b)
           T == Fn.ins[t]
           vals == [k \in DOMAIN T.ops |-> ValueOf(m.env, x, T.ops[k])]
           r == Compute(T.opc, vals)
       IN CASE T.kind = "br" -> ExecFrom(Fn, x, T.succ[1], b, m, fuel - 1)
            [] T.kind = "condbr" ->
                 ExecFrom(Fn, x, IF vals[1] % 2 = 1 THEN T.succ[1] ELSE T.succ[2],
                          b, m, fuel - 1)
            [] T.kind = "invoke" ->
                 ExecFrom(Fn, x, IF r % 3 # 0 THEN T.succ[1] ELSE T.succ[2], b,
                          [m EXCEPT !.env[t] = r, !.tr = Append(@, <<T.opc, vals>>)],
                          fuel - 1)
            [] T.kind = "ret" -> [st |-> "returned", val |-> vals[1], tr |-> m.tr]
            [] OTHER -> [st |-> "unreachable", val |-> 0, tr |-> m.tr]

\* the run of Fn on argument x, every stub predicate evaluating to o
Exec(Fn, x, o, fuel) ==
  ExecFrom(Fn, x, Fn.order[1], 0,
           [env |-> [i \in DOMAIN Fn.ins |-> Undef],
            mem |-> [i \in DOMAIN Fn.ins |-> Undef],
            tr |-> <<>>,
            pred |-> o],
           fuel)

\* B behaves as A does on argument x: a run of A that ends is a run of B, with
\* the same calls and the same returned Value; a run of A still going after Fuel
\* blocks made calls B makes too, in the same order
SameBehaviour(A, B, x, o) ==
  LET a == Exec(A, x, o, Fuel)
      b == Exec(B, x, o, StepsPerBlock * Fuel)
  IN IF a.st = "running" THEN IsPrefix(a.tr, b.tr) ELSE a = b

\* whichever body the stubs' predicate selects (1: originalBlock, 0: copyBlock)
Equivalent(A, B) == \A x \in 0..MaxArg : \A o \in {0, 1} : SameBehaviour(A, B, x, o)

---------------------------------------------------------------------------
(* Dominance *)

RECURSIVE ReachFrom(_, _, _, _)
ReachFrom(Fn, frontier, seen, avoid) ==
  IF frontier = {} THEN seen
  ELSE LET nxt == (UNION {Range(Succs(Fn, b)) : b \in frontier}) \ (seen \cup {avoid})
       IN ReachFrom(Fn, nxt, seen \cup nxt, avoid)

\* the blocks a path from the entry block reaches without entering block avoid
Reach(Fn, avoid) ==
  IF Fn.order[1] = avoid THEN {} ELSE ReachFrom(Fn, {Fn.order[1]}, {Fn.order[1]}, avoid)

\* every path from the entry block to block b passes through block d
Dominates(Fn, d, b) == d = b \/ b \notin Reach(Fn, d)

\* the definition of operand j of instruction u (position k of block b)
\* dominates the use
UseDominated(Fn, b, k, j) ==
  LET u == Fn.body[b][k]
      v == Fn.ins[u].ops[j]
  IN \/ v = 0
     \/ /\ v \in Placed(Fn)
        /\ IF Fn.ins[u].kind = "phi"
             THEN \/ Fn.ins[u].inc[j] \notin Reach(Fn, 0)
                  \/ Dominates(Fn, ParentOf(Fn, v), Fn.ins[u].inc[j])
             ELSE IF ParentOf(Fn, v) = b THEN IndexOf(Fn.body[b], v) < k
             ELSE Dominates(Fn, ParentOf(Fn, v), b)

\* def dominates use in every block a path from the entry block reaches
DefDominatesUse(Fn) ==
  \A b \in Reach(Fn, 0) : \A k \in DOMAIN Fn.body[b] :
    \A j \in DOMAIN Fn.ins[Fn.body[b][k]].ops : UseDominated(Fn, b, k, j)

---------------------------------------------------------------------------
(* Properties *)

\* runOnFunction has returned and F has not been replaced since
Returned == pc = "idle" /\ ret.at # "none"

\* the Normalizer phase of the current call is over
Normalized == pc \in {"shuffle", "loop"} \/ (pc = "idle" /\ ret.at = "end")

HasInvoke(Fn) == \E i \in Placed(Fn) : Fn.ins[i].kind = "invoke"

Selected == {k \in DOMAIN trials : trials[k].selected}

\* C1: a function without an InvokeInst returns the same Value and makes the
\* same calls, in the same order, on every argument, at every point of the pass
\* as before the call of runOnFunction, whichever blocks the trials selected,
\* in whichever order, and whichever body the inserted branches take
C1_BehaviourPreserved ==
  \/ F = F0
  \/ HasInvoke(F0)
  \/ Equivalent(F0, F)

\* C1 is exercised: a run transformed both blocks of the loop of "loop"
C1_Witness ==
  /\ Returned
  /\ F0.name = "loop"
  /\ Cardinality(Selected) = 2

\* C2 as amended: after a block is transformed, its head branches to exactly
\* originalBlock and copyBlock; when the block had a successor, both bodies
\* branch to the one join block and nowhere else; when it had none (it returns),
\* neither body has a successor and there is no join block
C2_TwoBodiesOneJoin ==
  last.block # 0 =>
    /\ Succs(F, last.block) = <<last.originalBlock, last.copyBlock>>
    /\ last.originalBlock # last.copyBlock
    /\ IF last.successor # 0
         THEN /\ Succs(F, last.originalBlock) = <<last.successor>>
              /\ Succs(F, last.copyBlock) = <<last.successor>>
         ELSE /\ Succs(F, last.originalBlock) = <<>>
              /\ Succs(F, last.copyBlock) = <<>>

\* C2 is exercised: a block with two successors was transformed
C2_Witness ==
  /\ last.block # 0
  /\ last.successor # 0
  /\ Len(Succs(F, last.successor)) = 2
  /\ Preds(F, last.successor) = {last.originalBlock, last.copyBlock}

\* C2 as claimed, in a function without an InvokeInst: after a block is
\* transformed, its head has the two bodies as its successors and both bodies
\* lead to one join block
C2_Original ==
  (last.block # 0 /\ ~HasInvoke(F0)) =>
    /\ Succs(F, last.block) = <<last.originalBlock, last.copyBlock>>
    /\ \E j \in Blocks(F) :
         /\ Succs(F, last.originalBlock) = <<j>>
         /\ Succs(F, last.copyBlock) = <<j>>

\* C3 as amended: a call that passes the gates, is not vetoed and lists at
\* least one candidate block leaves no PHINode once its demotion phase is over,
\* after each iteration of the loop and when it returns; a call that returns at
\* the veto or with no candidate leaves every PHINode where it was
C3_NoPhiOnceDemoted ==
  /\ Normalized => AllPhis(F) = {}
  /\ (pc = "idle" /\ ret.at \in {"invoke", "empty"}) => AllPhis(F) = AllPhis(F0)

\* C3 is exercised: a function with PHINodes went through a whole call
C3_Witness ==
  /\ pc = "idle"
  /\ ret.at = "end"
  /\ AllPhis(F0) # {}
  /\ Selected # {}

\* C3 as claimed: no PHINode once the demotion phase is over nor when the call
\* returns, also when the function was vetoed or had no candidate block
C3_Original ==
  (Normalized \/ (pc = "idle" /\ ret.at \in {"invoke", "empty"})) => AllPhis(F) = {}

C5_InvokeVetoes ==
  ( /\ Returned /\ HasInvoke(F0) /\ bcfProbability = 100
    /\ ret.at \in {"invoke", "empty", "end"} ) =>
    /\ ret.at = "invoke"
    /\ ~ret.val
    /\ Selected = {}
    /\ F = F0
    /\ ~isEligible(F0)

\* C6: what isEligible answered is what the walk of runOnFunction finds (true
\* exactly when it lists a candidate and does not veto), and a function it
\* answered false for is returned unmodified
C6_IsEligibleMirrorsFilter ==
  /\ (elig # "none" /\ pc = "demote") => elig = "true"
  /\ (elig # "none" /\ pc = "idle" /\ ret.at \in {"invoke", "empty"}) => elig = "false"
  /\ (elig = "false" /\ Returned) => (F = F0 /\ ~ret.val)
  /\ (elig = "false" /\ ~Returned) => pc \in {"idle", "filter"}

\* C6 is exercised: the function of one block, asked about and then run
C6_Witness ==
  /\ elig = "false"
  /\ pc = "idle"
  /\ ret.at = "empty"
  /\ F.name = "single"

\* C7: at probability 0 an untagged function is returned as it was, and the call
\* never reaches the loop that draws from the engine
C7_ZeroProbabilityNoDraw ==
  (bcfProbability = 0 /\ ~isFunctionTagged(F0) /\ pc # "init") =>
    /\ pc = "idle"
    /\ F = F0
    /\ trials = <<>>
    /\ ~ret.val
    /\ ret.at \in {"none", "disabled", "declaration", "probability"}

\* C7 is exercised: the call returned at the probability gate
C7_Witness ==
  /\ bcfProbability = 0
  /\ ~isFunctionTagged(F0)
  /\ ret.at = "probability"
  /\ F.name = "linear"

\* entry -> B -> exit
IsLinear3(Fn) ==
  /\ Len(Fn.body) = 3
  /\ Succs(Fn, 1) = <<2>>
  /\ Succs(Fn, 2) = <<3>>
  /\ Succs(Fn, 3) = <<>>

\* C8 as amended: when exit holds nothing but PHINodes and its terminator and B
\* holds an instruction before its terminator, a call at probability 1 splits B
\* into a head and a body, adds one copy of the body, ends the head in a
\* two-way branch to the two, splits and copies neither entry nor exit (they
\* keep their terminators), and takes the function from 3 blocks to 5
C8_ThreeToFive ==
  ( /\ pc = "idle" /\ ret.at = "end" /\ bcfProbability = 100
    /\ IsLinear3(F0)
    /\ IsTerminator(F0.ins[getFirstNonPHI(F0, 3)])
    /\ ~IsTerminator(F0.ins[getFirstNonPHI(F0, 2)]) ) =>
    /\ Len(F.body) = 5
    /\ Succs(F, 1) = <<2>>
    /\ Succs(F, 2) = <<4, 5>>
    /\ Succs(F, 4) = <<3>>
    /\ Succs(F, 5) = <<3>>
    /\ Succs(F, 3) = <<>>
    /\ getTerminator(F, 1) = getTerminator(F0, 1)
    /\ getTerminator(F, 3) = getTerminator(F0, 3)
    /\ getFirstNonPHI(F0, 2) \in Range(F.body[4])

\* C8 is exercised
C8_Witness ==
  /\ pc = "idle"
  /\ ret.at = "end"
  /\ bcfProbability = 100
  /\ F0 = Linear
  /\ Len(F.body) = 5

\* C8 as claimed: a call at probability 1 on any entry -> B -> exit takes it
\* from 3 blocks to 5 and leaves entry and exit as they were
C8_Original ==
  (pc = "idle" /\ ret.at = "end" /\ bcfProbability = 100 /\ IsLinear3(F0)) =>
    /\ Len(F.body) = 5
    /\ F.body[1] = F0.body[1]
    /\ F.body[3] = F0.body[3]

\* C9 as claimed: def dominates use after every transformation of a block and
\* when runOnFunction returns
C9_DefDominatesUse ==
  (((pc = "loop" /\ last.block # 0) \/ Returned) /\ ~F.isDecl) => DefDominatesUse(F)

\* the outcomes of n trials of an engine in state e
RECURSIVE FreshOutcomes(_, _, _)
FreshOutcomes(e, p, n) ==
  IF n = 0 THEN <<>> ELSE <<Trial(e, p)>> \o FreshOutcomes(EngineNext(e), p, n - 1)

\* C10 as claimed: with a seed configured, the trials of a call come out as
\* they do from the freshly seeded engine, whatever was run before
C10_SelectionIndependentOfHistory ==
  bcfSeed # "" =>
    [k \in DOMAIN trials |-> trials[k].selected]
      = FreshOutcomes(SeedOf(bcfSeed), bcfProbability, Len(trials))

---------------------------------------------------------------------------
(* The frame of the loop *)

\* the function as the loop of line 199 finds it: F0 with the PHINodes the walk
\* listed demoted
EngineStart == DemoteAll(F0, Filter(F0).phis, 1)

\* the loop of line 199 has begun in the current call, or the call went through it
InEngine == pc = "loop" \/ (pc = "idle" /\ ret.at = "end")

\* the candidate blocks whose trial failed
Unselected == {trials[k].block : k \in {j \in DOMAIN trials : ~trials[j].selected}}

\* block b and its instructions are in Fn what they are in Es
Untouched(Fn, Es, b) ==
  /\ Fn.body[b] = Es.body[b]
  /\ \A i \in Range(Fn.body[b]) : Fn.ins[i] = Es.ins[i]

\* instruction i of block b is in Fn what it is in Es, but that an operand
\* defined outside b may have become a load
SameButReloads(Fn, Es, b, i) ==
  LET old == Es.ins[i]
      new == Fn.ins[i]
  IN /\ [new EXCEPT !.ops = <<>>] = [old EXCEPT !.ops = <<>>]
     /\ Len(new.ops) = Len(old.ops)
     /\ \A k \in DOMAIN old.ops :
          \/ new.ops[k] = old.ops[k]
          \/ /\ Fn.ins[new.ops[k]].kind = "load"
             /\ old.ops[k] \notin Range(Es.body[b])

\* C11 as amended: a candidate block whose trial fails is never split or
\* cloned: across the loop it keeps its own instructions in their order, its
\* terminator and its successors; what changes comes from the reconciliation
\* of transformed blocks: an operand that was a Value defined outside the block
\* may become a load, and the only instructions added to the block are loads
C11_UnselectedKeepsItsCode ==
  (InEngine /\ Unselected # {}) =>
    LET Es == EngineStart
        n == Len(Es.ins)
    IN \A b \in Unselected :
         /\ SelectSeq(F.body[b], LAMBDA i : i <= n) = Es.body[b]
         /\ \A i \in Range(F.body[b]) : i > n => F.ins[i].kind = "load"
         /\ \A i \in Range(Es.body[b]) : SameButReloads(F, Es, b, i)
         /\ getTerminator(F, b) = getTerminator(Es, b)
         /\ Succs(F, b) = Succs(Es, b)

\* C11 is exercised: a call went through the loop, transformed a block and
\* changed a block whose trial failed
C11_Witness ==
  /\ pc = "idle"
  /\ ret.at = "end"
  /\ Selected # {}
  /\ \E b \in Unselected : ~Untouched(F, EngineStart, b)

\* C11 as claimed, in a function without an InvokeInst: across the loop, the
\* instruction sequence, the operands, the terminator and the successors of a
\* candidate block whose trial failed are what they were when the loop began
C11_Original ==
  (InEngine /\ ~HasInvoke(F0)) => \A b \in Unselected : Untouched(F, EngineStart, b)

---------------------------------------------------------------------------
(* The PHINodes of the reconciliation *)

\* C12 as claimed, in a function without an InvokeInst: a PHINode the
\* reconciliation hands to DemotePHIToStack has one incoming entry for each
\* predecessor of the join block, the predecessors other than originalBlock and
\* copyBlock included, and no two for the same predecessor
C12_OneEntryPerPredecessor ==
  ~HasInvoke(F0) =>
    \A k \in DOMAIN last.lowered :
      /\ Range(last.lowered[k].inc) = last.lowered[k].preds
      /\ Len(last.lowered[k].inc) = Cardinality(Range(last.lowered[k].inc))

---------------------------------------------------------------------------
(* The candidate list *)

\* the blocks the trials of the current call were drawn for, in order
Tried == [k \in DOMAIN trials |-> trials[k].block]

\* the blocks the transformation of candidate b adds: the body and its copy,
\* and a join block when b has several successors
BlocksAdded(Es, b) == IF Len(Succs(Es, b)) > 1 THEN 3 ELSE 2

RECURSIVE SumAdded(_, _)
SumAdded(Es, k) ==
  IF k = 0 THEN 0
  ELSE SumAdded(Es, k - 1)
         + (IF trials[k].selected THEN BlocksAdded(Es, trials[k].block) ELSE 0)

---------------------------------------------------------------------------
(* What runOnFunction returns *)

\* C14 as claimed, in a function without an InvokeInst: when runOnFunction
\* returns false, the function (its blocks, instructions, PHINodes, stack
\* slots and tag) is what it was before the call
C14_FalseMeansUnchanged ==
  (Returned /\ ~ret.val /\ ~HasInvoke(F0)) => F = F0

====
